---------------------------- MODULE Spec2Model ----------------------------
(***************************************************************************)
(* The round engine of the mining game: four Miners (the player and three *)
(* bots) accrue gold, buy upgrades and donate; at the end of a round the  *)
(* donations are ranked and the rank is the damage taken.                 *)
(*                                                                         *)
(* Time.  One unit of time is 0.05 s, the largest unit in which every     *)
(* mining interval is a whole number.  An Instant is stored relative to   *)
(* the present: 0 is "now" and -k is "k units ago"; when a frame arrives  *)
(* dt later every stored Instant moves dt into the past (Elapse).  The    *)
(* code only ever compares now.duration_since(t) with a threshold, so an  *)
(* Instant further back than every threshold is kept at the horizon.      *)
(*                                                                         *)
(* Gold.  f32 amounts are modelled by the integers; of the random share a *)
(* bot may donate, the least and the greatest whole amount are the inputs.*)
(***************************************************************************)
EXTENDS Integers, Sequences, FiniteSets, TLC

VARIABLES
    player,            \* MainState.player
    bots,              \* MainState.bots, a sequence of Miners
    current_round,     \* MainState.current_round
    round_start_time,  \* MainState.round_start_time (relative Instant)
    game_state,        \* MainState.game_state
    round_results,     \* MainState.round_results: None, or Some(sequence of <<index, donated>>)
    scored,            \* history: what the last end_round ranked (None outside RoundEnd/GameOver);
                       \* under SpecMiner, what the method called was given and returned
    command            \* history: the last of new, end_round, start_next_round and
                       \* restart_game that ran; under SpecMiner, the method called

vars == <<player, bots, current_round, round_start_time, game_state, round_results, scored,
          command>>

-----------------------------------------------------------------------------
(* Program constants *)

STARTING_HEALTH == 10
MAX_ROUNDS == 15
ROUND_DURATION == 1200
BOT_COUNT == 3

(* Bounds of the model *)

\* a frame is not taken when it would leave the player, or a bot, with more gold than this
MaxPlayerGold == 4
MaxBotGold == 2
\* Instants of the mining clock are remembered this far back
MineHorizon == 40

\* Option<T>: None is the empty sequence and Some(v) the sequence of v alone
None == <<>>
Some(v) == <<v>>
Unwrap(o) == o[1]
Now == 0

BotIdx == 1..BOT_COUNT
\* two frames are a whole round apart
TickSteps == {ROUND_DURATION}
Buttons == {"Left", "Right"}

Max(a, b) == IF a >= b THEN a ELSE b

-----------------------------------------------------------------------------
(* Miner *)

Miner_new(miner_type) ==
    [ miner_type     |-> miner_type,
      gold           |-> 0,
      donated_gold   |-> 0,
      pickaxe_level  |-> 0,
      mine_level     |-> 0,
      last_mine_time |-> Now,
      health         |-> STARTING_HEALTH,
      alive          |-> TRUE ]

mine_rate(m) ==
    CASE m.pickaxe_level = 0 -> 20
      [] m.pickaxe_level = 1 -> 15
      [] m.pickaxe_level = 2 -> 10
      [] m.pickaxe_level = 3 -> 5
      [] m.pickaxe_level = 4 -> 2
      [] OTHER -> 20

gold_per_mine(m) ==
    CASE m.mine_level = 0 -> 2
      [] m.mine_level = 1 -> 3
      [] m.mine_level = 2 -> 5
      [] m.mine_level = 3 -> 8
      [] m.mine_level = 4 -> 15
      [] OTHER -> 2

\* f32::MAX, the cost of an upgrade that does not exist: the greatest integer of the model
F32_MAX == 2147483647

\* the prices of the mine asked for the pickaxe
pickaxe_upgrade_cost_of_mine(m) ==
    CASE m.pickaxe_level = 0 -> 100
      [] m.pickaxe_level = 1 -> 300
      [] m.pickaxe_level = 2 -> 600
      [] m.pickaxe_level = 3 -> 1000
      [] OTHER -> F32_MAX

pickaxe_upgrade_cost(m) ==
    CASE m.pickaxe_level = 0 -> 200
      [] m.pickaxe_level = 1 -> 400
      [] m.pickaxe_level = 2 -> 800
      [] m.pickaxe_level = 3 -> 1600
      [] OTHER -> F32_MAX

mine_upgrade_cost(m) ==
    CASE m.mine_level = 0 -> 100
      [] m.mine_level = 1 -> 300
      [] m.mine_level = 2 -> 600
      [] m.mine_level = 3 -> 1000
      [] OTHER -> F32_MAX

duration_since(later, earlier) == later - earlier

\* an update without the test of alive
Miner_update_of_the_dead(m) ==
    IF duration_since(Now, m.last_mine_time) >= mine_rate(m)
    THEN [m EXCEPT !.gold = @ + gold_per_mine(m), !.last_mine_time = Now]
    ELSE m

\* an update that mines once for every interval that has passed
Miner_update_catching_up(m) ==
    LET elapsed == duration_since(Now, m.last_mine_time)
    IN  IF ~m.alive THEN m
        ELSE IF elapsed >= mine_rate(m)
             THEN [m EXCEPT !.gold = @ + (elapsed \div mine_rate(m)) * gold_per_mine(m),
                            !.last_mine_time = Now]
             ELSE m

\* Miner::update
Miner_update(m) ==
    IF ~m.alive THEN m
    ELSE IF duration_since(Now, m.last_mine_time) >= mine_rate(m)
         THEN [m EXCEPT !.gold = @ + gold_per_mine(m), !.last_mine_time = Now]
         ELSE m

\* upgrade_pickaxe without the test of the price
upgrade_pickaxe_unchecked(m) ==
    IF m.pickaxe_level >= 4
    THEN <<m, FALSE>>
    ELSE <<[m EXCEPT !.gold = @ - pickaxe_upgrade_cost(m), !.pickaxe_level = @ + 1], TRUE>>

\* Miner::upgrade_pickaxe: <<the Miner afterwards, the value returned>>
upgrade_pickaxe(m) ==
    IF m.pickaxe_level >= 4 \/ m.gold < pickaxe_upgrade_cost(m)
    THEN <<m, FALSE>>
    ELSE <<[m EXCEPT !.gold = @ - pickaxe_upgrade_cost(m), !.pickaxe_level = @ + 1], TRUE>>

\* upgrade_mine without the test of the level, the last price asked again
upgrade_mine_uncapped(m) ==
    LET cost == IF m.mine_level >= 4 THEN 1000 ELSE mine_upgrade_cost(m)
    IN  IF m.gold < cost
        THEN <<m, FALSE>>
        ELSE <<[m EXCEPT !.gold = @ - cost, !.mine_level = @ + 1], TRUE>>

\* upgrade_mine that asks for more gold than the price
upgrade_mine_strict(m) ==
    IF m.mine_level >= 4 \/ m.gold <= mine_upgrade_cost(m)
    THEN <<m, FALSE>>
    ELSE <<[m EXCEPT !.gold = @ - mine_upgrade_cost(m), !.mine_level = @ + 1], TRUE>>

\* Miner::upgrade_mine
upgrade_mine(m) ==
    IF m.mine_level >= 4 \/ m.gold < mine_upgrade_cost(m)
    THEN <<m, FALSE>>
    ELSE <<[m EXCEPT !.gold = @ - mine_upgrade_cost(m), !.mine_level = @ + 1], TRUE>>

\* contribute_gold that refuses all the gold
contribute_gold_strict(m, amount) ==
    IF amount < m.gold
    THEN [m EXCEPT !.gold = @ - amount, !.donated_gold = @ + amount]
    ELSE m

\* Miner::contribute_gold
contribute_gold(m, amount) ==
    IF amount <= m.gold
    THEN [m EXCEPT !.gold = @ - amount, !.donated_gold = @ + amount]
    ELSE m

\* take_damage that tests health < 0
take_damage_strict(m, damage) ==
    LET h == m.health - damage
    IN  IF h < 0 THEN [m EXCEPT !.health = 0, !.alive = FALSE]
        ELSE [m EXCEPT !.health = h]

\* Miner::take_damage
take_damage(m, damage) ==
    LET h == m.health - damage
    IN  IF h <= 0 THEN [m EXCEPT !.health = 0, !.alive = FALSE]
        ELSE [m EXCEPT !.health = h]

-----------------------------------------------------------------------------
(* MainState *)

\* the MainState as one value, so that its methods are operators on it
self ==
    [ player           |-> player,
      bots             |-> bots,
      current_round    |-> current_round,
      round_start_time |-> round_start_time,
      game_state       |-> game_state,
      round_results    |-> round_results,
      scored           |-> scored,
      command          |-> command ]

\* the variables have the fields of s
Is(s) ==
    /\ player = s.player
    /\ bots = s.bots
    /\ current_round = s.current_round
    /\ round_start_time = s.round_start_time
    /\ game_state = s.game_state
    /\ round_results = s.round_results
    /\ scored = s.scored
    /\ command = s.command

\* the variables take the fields of s
Becomes(s) ==
    /\ player' = s.player
    /\ bots' = s.bots
    /\ current_round' = s.current_round
    /\ round_start_time' = s.round_start_time
    /\ game_state' = s.game_state
    /\ round_results' = s.round_results
    /\ scored' = s.scored
    /\ command' = s.command

\* MainState::new
MainState_new ==
    [ player           |-> Miner_new("Player"),
      bots             |-> [i \in BotIdx |-> Miner_new("Bot")],
      current_round    |-> 1,
      round_start_time |-> Now,
      game_state       |-> "Playing",
      round_results    |-> None,
      scored           |-> None,
      command          |-> "new" ]

\* dt passes before the next event: every stored Instant is dt further back
Elapse(s, dt) ==
    LET back(m) == [m EXCEPT !.last_mine_time = Max(@ - dt, Now - MineHorizon)]
    IN  [s EXCEPT !.player = back(@),
                  !.bots = [i \in BotIdx |-> back(@[i])],
                  !.round_start_time = Max(@ - dt, Now - ROUND_DURATION)]

\* bot.gold * rng.gen_range(0.1..0.6): of the whole amounts c with
\* 0.1 * gold <= c < 0.6 * gold, the least and the greatest (0 of no gold)
ContributionChoices(gold) ==
    LET least == (gold + 9) \div 10
        greatest == (6 * gold - 1) \div 10
    IN  IF gold = 0 THEN {0}
        ELSE {c \in {least, greatest} : 10 * c >= gold /\ 10 * c < 6 * gold}

\* MainState::bot_make_decision; decision and contribution are the two random draws
bot_make_decision(s, bot_index, decision, contribution) ==
    LET bot == s.bots[bot_index]
    IN  IF ~bot.alive THEN s
        ELSE CASE decision = 0 ->
                    IF bot.pickaxe_level < 4 /\ bot.gold >= pickaxe_upgrade_cost(bot)
                    THEN [s EXCEPT !.bots[bot_index] = upgrade_pickaxe(bot)[1]]
                    ELSE s
               [] decision = 1 ->
                    IF bot.mine_level < 4 /\ bot.gold >= mine_upgrade_cost(bot)
                    THEN [s EXCEPT !.bots[bot_index] = upgrade_mine(bot)[1]]
                    ELSE s
               [] decision = 2 ->
                    [s EXCEPT !.bots[bot_index] = contribute_gold(bot, contribution)]
               [] OTHER -> s

\* a comparator that puts an entry before its equals too
higher_or_equal_first(a, b) == a[2] >= b[2]

\* the comparator with its operands exchanged: lowest first
lower_first(a, b) == b[2] > a[2]

\* the comparator of end_round's sort: a goes before b
higher_first(a, b) == a[2] > b[2]

\* Vec::sort_by, a stable sort: e goes behind every entry it does not precede
RECURSIVE insert_sorted(_, _)
insert_sorted(sorted, e) ==
    IF sorted = <<>> THEN <<e>>
    ELSE IF higher_first(e, Head(sorted))
         THEN <<e>> \o sorted
         ELSE <<Head(sorted)>> \o insert_sorted(Tail(sorted), e)

\* no sort at all
sort_by_unsorted(list) == list

RECURSIVE sort_by(_)
sort_by(list) ==
    IF list = <<>> THEN <<>>
    ELSE insert_sorted(sort_by(SubSeq(list, 1, Len(list) - 1)), list[Len(list)])

\* the first loop without the test of bot.alive
RECURSIVE collect_bots_all(_, _)
collect_bots_all(bs, i) ==
    IF i > Len(bs) THEN <<>>
    ELSE <<<<i, bs[i].donated_gold>>>> \o collect_bots_all(bs, i + 1)

\* end_round's first loop: the player (index 0), then the alive bots (index i + 1
\* for the i-th of 0..2, which is the i-th of 1..3 here)
RECURSIVE collect_bots(_, _)
collect_bots(bs, i) ==
    IF i > Len(bs) THEN <<>>
    ELSE (IF bs[i].alive THEN <<<<i, bs[i].donated_gold>>>> ELSE <<>>)
         \o collect_bots(bs, i + 1)

collect_results(s) == <<<<0, s.player.donated_gold>>>> \o collect_bots(s.bots, 1)

\* the second loop with the damage counted down from the length of the list
RECURSIVE assign_damage_counting_down(_, _, _)
assign_damage_counting_down(s, results, position) ==
    IF position >= Len(results) THEN s
    ELSE LET miner_index == results[position + 1][1]
             damage == Len(results) - position
             s1 == IF miner_index = 0
                   THEN [s EXCEPT !.player = take_damage(@, damage)]
                   ELSE [s EXCEPT !.bots[miner_index] = take_damage(@, damage)]
         IN  assign_damage_counting_down(s1, results, position + 1)

\* the second loop with positions counted from 1
RECURSIVE assign_damage_one_based(_, _, _)
assign_damage_one_based(s, results, position) ==
    IF position >= Len(results) THEN s
    ELSE LET miner_index == results[position + 1][1]
             damage == position + 1
             s1 == IF miner_index = 0
                   THEN [s EXCEPT !.player = take_damage(@, damage)]
                   ELSE [s EXCEPT !.bots[miner_index] = take_damage(@, damage)]
         IN  assign_damage_one_based(s1, results, position + 1)

\* end_round's second loop, from position on: the damage is the position
RECURSIVE assign_damage(_, _, _)
assign_damage(s, results, position) ==
    IF position >= Len(results) THEN s
    ELSE LET miner_index == results[position + 1][1]
             damage == position
             s1 == IF miner_index = 0
                   THEN [s EXCEPT !.player = take_damage(@, damage)]
                   ELSE [s EXCEPT !.bots[miner_index] = take_damage(@, damage)]
         IN  assign_damage(s1, results, position + 1)

\* what end_round sees as it starts, kept for the properties
Snapshot(s) ==
    [ donated |-> [i \in 0..BOT_COUNT |->
                     IF i = 0 THEN s.player.donated_gold ELSE s.bots[i].donated_gold],
      alive   |-> [i \in 0..BOT_COUNT |->
                     IF i = 0 THEN s.player.alive ELSE s.bots[i].alive],
      health  |-> [i \in 0..BOT_COUNT |->
                     IF i = 0 THEN s.player.health ELSE s.bots[i].health] ]

\* the phase with the test current_round > MAX_ROUNDS
next_game_state_late(s) ==
    IF ~s.player.alive THEN "GameOver"
    ELSE IF s.current_round > MAX_ROUNDS THEN "GameOver"
    ELSE "RoundEnd"

\* the phase without the test of the player
next_game_state_ignoring_death(s) ==
    IF s.current_round >= MAX_ROUNDS THEN "GameOver" ELSE "RoundEnd"

\* the phase without the test of the last round
next_game_state_uncapped(s) ==
    IF ~s.player.alive THEN "GameOver" ELSE "RoundEnd"

\* the end of end_round: the phase it leaves
next_game_state(s) ==
    IF ~s.player.alive THEN "GameOver"
    ELSE IF s.current_round >= MAX_ROUNDS THEN "GameOver"
    ELSE "RoundEnd"

\* end_round that resets the donation of the player alone
end_round_keeping_bot_donations(s) ==
    LET results == sort_by(collect_results(s))
        s1 == assign_damage(s, results, 0)
        s2 == [s1 EXCEPT !.player.donated_gold = 0,
                         !.round_results = Some(results),
                         !.scored = Some(Snapshot(s)),
                         !.command = "end_round"]
    IN  [s2 EXCEPT !.game_state = next_game_state(s2)]

\* MainState::end_round
end_round(s) ==
    LET results == sort_by(collect_results(s))
        s1 == assign_damage(s, results, 0)
        s2 == [s1 EXCEPT !.player.donated_gold = 0,
                         !.bots = [i \in BotIdx |-> [@[i] EXCEPT !.donated_gold = 0]],
                         !.round_results = Some(results),
                         !.scored = Some(Snapshot(s)),
                         !.command = "end_round"]
    IN  [s2 EXCEPT !.game_state = next_game_state(s2)]

\* start_next_round that gives the player its health back
start_next_round_healing(s) ==
    [s EXCEPT !.player.health = STARTING_HEALTH,
              !.current_round = @ + 1,
              !.round_start_time = Now,
              !.game_state = "Playing",
              !.round_results = None,
              !.scored = None,
              !.command = "start_next_round"]

\* start_next_round that puts every Miner back into the game
start_next_round_reviving(s) ==
    [s EXCEPT !.player.alive = TRUE,
              !.bots = [i \in BotIdx |-> [@[i] EXCEPT !.alive = TRUE]],
              !.current_round = @ + 1,
              !.round_start_time = Now,
              !.game_state = "Playing",
              !.round_results = None,
              !.scored = None,
              !.command = "start_next_round"]

\* start_next_round that stays on the RoundEnd screen
start_next_round_keeping_phase(s) ==
    [s EXCEPT !.current_round = @ + 1,
              !.round_start_time = Now,
              !.round_results = None,
              !.scored = None,
              !.command = "start_next_round"]

\* start_next_round that leaves the results of the round behind
start_next_round_keeping_results(s) ==
    [s EXCEPT !.current_round = @ + 1,
              !.round_start_time = Now,
              !.game_state = "Playing",
              !.scored = None,
              !.command = "start_next_round"]

\* MainState::start_next_round
start_next_round(s) ==
    [s EXCEPT !.current_round = @ + 1,
              !.round_start_time = Now,
              !.game_state = "Playing",
              !.round_results = None,
              !.scored = None,
              !.command = "start_next_round"]

\* restart_game that pushes the new bots behind the old ones
restart_game_appending_bots(s) ==
    [MainState_new EXCEPT !.command = "restart_game", !.bots = s.bots \o MainState_new.bots]

\* restart_game without the new bots
restart_game_keeping_bots(s) ==
    [MainState_new EXCEPT !.command = "restart_game", !.bots = s.bots]

\* MainState::restart_game
restart_game(s) == [MainState_new EXCEPT !.command = "restart_game"]

WINDOW_WIDTH == 800
WINDOW_HEIGHT == 600
contribution_amounts == <<10, 50, 100, 500, 1000>>

\* MainState::handle_game_ui_click
handle_game_ui_click(s, x, y) ==
    LET s1 == IF x >= 50 /\ x <= 250 /\ y >= 150 /\ y <= 200
              THEN [s EXCEPT !.player = upgrade_pickaxe(@)[1]] ELSE s
        s2 == IF x >= 50 /\ x <= 250 /\ y >= 220 /\ y <= 270
              THEN [s1 EXCEPT !.player = upgrade_mine(@)[1]] ELSE s1
        y_pos(i) == 180 + (i - 1) * 40
        \* the loop stops at the first amount whose button is hit and affordable
        hit == {i \in 1..Len(contribution_amounts) :
                  y >= y_pos(i) /\ y <= y_pos(i) + 30
                  /\ contribution_amounts[i] <= s2.player.gold}
        first == CHOOSE i \in hit : \A j \in hit : i <= j
        s3 == IF hit # {}
              THEN [s2 EXCEPT !.player = contribute_gold(@, contribution_amounts[first])]
              ELSE s2
        all_y_pos == 180 + Len(contribution_amounts) * 40
        s4 == IF y >= all_y_pos /\ y <= all_y_pos + 30 /\ s3.player.gold > 0
              THEN [s3 EXCEPT !.player = contribute_gold(@, s3.player.gold)]
              ELSE s3
    IN  IF x >= 400 /\ x <= 550 THEN s4 ELSE s2

\* MainState::handle_round_end_ui_click
handle_round_end_ui_click(s, x, y) ==
    IF s.round_results # None
    THEN LET results == Unwrap(s.round_results)
             y_offset == 150 + 30 * Len(results) + 30
             button_x_min == WINDOW_WIDTH \div 2 - 100
             button_x_max == WINDOW_WIDTH \div 2 + 100
             button_y_min == y_offset + 20
             button_y_max == y_offset + 80
         IN  IF x >= button_x_min /\ x <= button_x_max
                /\ y >= button_y_min /\ y <= button_y_max
             THEN start_next_round(s) ELSE s
    ELSE s

\* MainState::handle_game_over_ui_click
handle_game_over_ui_click(s, x, y) ==
    IF x >= WINDOW_WIDTH \div 2 - 75 /\ x <= WINDOW_WIDTH \div 2 + 75
       /\ y >= WINDOW_HEIGHT \div 2 + 30 /\ y <= WINDOW_HEIGHT \div 2 + 70
    THEN restart_game(s) ELSE s

\* a dispatch that looks for the Restart button in every phase
on_mouse_button_down_restart_anywhere(s, button, x, y) ==
    IF button = "Left"
    THEN IF handle_game_over_ui_click(s, x, y) # s
         THEN handle_game_over_ui_click(s, x, y)
         ELSE CASE s.game_state = "Playing"  -> handle_game_ui_click(s, x, y)
                [] s.game_state = "RoundEnd" -> handle_round_end_ui_click(s, x, y)
                [] s.game_state = "GameOver" -> s
    ELSE s

\* a dispatch that takes the GameOver screen for the RoundEnd screen
on_mouse_button_down_any_phase(s, button, x, y) ==
    IF button = "Left"
    THEN CASE s.game_state = "Playing"  -> handle_game_ui_click(s, x, y)
           [] s.game_state = "RoundEnd" -> handle_round_end_ui_click(s, x, y)
           [] s.game_state = "GameOver" -> handle_round_end_ui_click(s, x, y)
    ELSE s

\* EventHandler::mouse_button_down_event, as a function of the MainState
on_mouse_button_down(s, button, x, y) ==
    IF button = "Left"
    THEN CASE s.game_state = "Playing"  -> handle_game_ui_click(s, x, y)
           [] s.game_state = "RoundEnd" -> handle_round_end_ui_click(s, x, y)
           [] s.game_state = "GameOver" -> handle_game_over_ui_click(s, x, y)
    ELSE s

\* the loop "for i in 0..self.bots.len() { self.bot_make_decision(i) }", from bot i on
RECURSIVE bots_decide(_, _, _, _)
bots_decide(s, i, decision, contribution) ==
    IF i > Len(s.bots) THEN s
    ELSE bots_decide(bot_make_decision(s, i, decision[i], contribution[i]),
                     i + 1, decision, contribution)

\* a frame that looks at the round clock before the bots decide
playing_frame_scoring_first(s, decision, contribution) ==
    LET round_elapsed == duration_since(Now, s.round_start_time)
        s1 == IF round_elapsed >= ROUND_DURATION THEN end_round(s) ELSE s
    IN  bots_decide(s1, 1, decision, contribution)

\* the Playing arm of update after the Miners were updated
playing_frame(s, decision, contribution) ==
    LET s1 == bots_decide(s, 1, decision, contribution)
        round_elapsed == duration_since(Now, s1.round_start_time)
    IN  IF round_elapsed >= ROUND_DURATION THEN end_round(s1) ELSE s1

update_miners(s) ==
    [s EXCEPT !.player = Miner_update(@),
              !.bots = [i \in BotIdx |-> Miner_update(@[i])]]

\* an update that does not look at the phase
on_update_in_any_phase(s, decision, contribution) ==
    playing_frame(update_miners(s), decision, contribution)

\* an update that starts the next round by itself
on_update_advancing(s, decision, contribution) ==
    CASE s.game_state = "Playing"  -> playing_frame(update_miners(s), decision, contribution)
      [] s.game_state = "RoundEnd" -> start_next_round(s)
      [] s.game_state = "GameOver" -> s

\* EventHandler::update of game_state.rs, as a function of the MainState
on_update(s, decision, contribution) ==
    CASE s.game_state = "Playing"  -> playing_frame(update_miners(s), decision, contribution)
      [] s.game_state = "RoundEnd" -> s
      [] s.game_state = "GameOver" -> s

\* EventHandler::update of main.rs, the crate root: the Miners are updated in every phase
on_update_main(s, decision, contribution) ==
    LET s1 == update_miners(s)
    IN  CASE s1.game_state = "Playing"  -> playing_frame(s1, decision, contribution)
          [] s1.game_state = "RoundEnd" -> s1
          [] s1.game_state = "GameOver" -> s1

-----------------------------------------------------------------------------
(* The state machine *)

\* the points of the window that are clicked: one in each button, one in none
\* (the two upgrades; the five amounts and All; Continue under one or two and under
\* three or four results, the second of which is Restart too; none)
ClickPoints ==
    { <<150, 175>>, <<150, 245>>,
      <<475, 195>>, <<475, 235>>, <<475, 275>>, <<475, 315>>, <<475, 355>>, <<475, 395>>,
      <<350, 275>>, <<350, 335>>, <<0, 0>> }

\* the random draws bot_make_decision makes for one bot: <<decision, contribution>>;
\* a dead bot returns before it draws
BotDraws(bot) ==
    IF ~bot.alive THEN {<<0, 0>>}
    ELSE {<<0, 0>>, <<1, 0>>} \cup {<<2, c>> : c \in ContributionChoices(bot.gold)}

\* the random draws of one frame, given the MainState the bots decide in
Draws(s) ==
    { [decision |-> <<d1[1], d2[1], d3[1]>>, contribution |-> <<d1[2], d2[2], d3[2]>>] :
        d1 \in BotDraws(s.bots[1]), d2 \in BotDraws(s.bots[2]), d3 \in BotDraws(s.bots[3]) }

\* the bound on gold
WithinBounds ==
    /\ player.gold <= MaxPlayerGold
    /\ \A i \in BotIdx : bots[i].gold <= MaxBotGold

Init == Is(MainState_new)

\* a frame: update of game_state.rs is called dt after the last event
update(dt) ==
    LET s0 == Elapse(self, dt)
        s1 == IF s0.game_state = "Playing" THEN update_miners(s0) ELSE s0
    IN  \E d \in Draws(s1) : Becomes(on_update(s0, d.decision, d.contribution))

\* a frame: update of main.rs is called dt after the last event
update_main(dt) ==
    LET s0 == Elapse(self, dt)
        s1 == update_miners(s0)
    IN  \E d \in Draws(s1) : Becomes(on_update_main(s0, d.decision, d.contribution))

\* a click
mouse_button_down_event(button, x, y) ==
    LET s1 == on_mouse_button_down(self, button, x, y)
    IN  Becomes(s1)

Next ==
    \/ \E dt \in TickSteps : update(dt) /\ WithinBounds'
    \/ \E dt \in TickSteps : update_main(dt) /\ WithinBounds'
    \/ \E button \in Buttons, p \in ClickPoints : mouse_button_down_event(button, p[1], p[2])

Spec == Init /\ [][Next]_vars

-----------------------------------------------------------------------------
(* The state machine with frames that keep coming and a player who clicks Continue *)

\* the event loop calls update for every frame for as long as the window is open
PlayingFrame ==
    /\ game_state = "Playing"
    /\ \E dt \in TickSteps : (update(dt) \/ update_main(dt)) /\ WithinBounds'

\* the player clicks Continue on the RoundEnd screen
ClickContinue ==
    /\ game_state = "RoundEnd"
    /\ \E p \in ClickPoints :
           /\ handle_round_end_ui_click(self, p[1], p[2]) # self
           /\ mouse_button_down_event("Left", p[1], p[2])

\* the player clicks All: a player who kept the gold would reach the bound on
\* gold, which stands for no gold of the game and would stop the frames
ClickAll ==
    /\ game_state = "Playing"
    /\ mouse_button_down_event("Left", 475, 395)

\* the MainStates a frame of Playing can leave, by either update
FrameOutcomes(dt) ==
    LET s0 == Elapse(self, dt)
        s1 == update_miners(s0)
    IN  { on_update(s0, d.decision, d.contribution) : d \in Draws(s1) }
        \cup { on_update_main(s0, d.decision, d.contribution) : d \in Draws(s1) }

\* ENABLED <<PlayingFrame>>_vars, computed from the state: a frame of Playing within
\* the bound on gold exists (every frame of Playing changes the state: it ends the round)
FrameEnabled ==
    /\ game_state = "Playing"
    /\ \E dt \in TickSteps : \E t \in FrameOutcomes(dt) :
           /\ t.player.gold <= MaxPlayerGold
           /\ \A i \in BotIdx : t.bots[i].gold <= MaxBotGold

\* WF_vars(PlayingFrame), written out with FrameEnabled for its ENABLED
FramesKeepComing == []<>~FrameEnabled \/ []<><<PlayingFrame>>_vars

SpecLive ==
    /\ Init /\ [][Next]_vars
    /\ FramesKeepComing
    /\ WF_vars(ClickContinue)
    /\ WF_vars(ClickAll)

-----------------------------------------------------------------------------
(* The state machine late in a game, with gold to spend *)

\* the frames the Miners are updated in while the player waits on the RoundEnd
\* screen of round 13
EconPauseFrames == 1499

\* a state 13 rounds into a game: bots 2 and 3 have died, the player and bot 1
\* left the 13th end_round with 2 gold and 2 health each, and update of main.rs
\* ran EconPauseFrames times before the player clicked Continue
EconStart ==
    LET rich == [Miner_new("Player") EXCEPT !.gold = 2 + 2 * EconPauseFrames, !.health = 2]
        dead == [Miner_new("Bot") EXCEPT !.gold = 2, !.health = 0, !.alive = FALSE,
                                         !.last_mine_time = Now - MineHorizon]
    IN  [ player           |-> rich,
          bots             |-> <<[rich EXCEPT !.miner_type = "Bot"], dead, dead>>,
          current_round    |-> 14,
          round_start_time |-> Now,
          game_state       |-> "Playing",
          round_results    |-> None,
          scored           |-> None,
          command          |-> "start_next_round" ]

InitEcon == Is(EconStart)

\* two frames a round
EconTickSteps == {ROUND_DURATION \div 2}

\* the buttons clicked: the two upgrades, All, Continue, Restart
EconClickPoints == { <<150, 175>>, <<150, 245>>, <<475, 395>>, <<350, 275>>, <<350, 335>> }

\* the frames followed are those of the rounds from EconStart on, while Playing
EconBounds == game_state = "Playing" /\ current_round >= EconStart.current_round

\* on the RoundEnd and GameOver screens the frames followed are those of update of
\* game_state.rs, in which nothing is mined
NextEcon ==
    \/ \E dt \in EconTickSteps : EconBounds /\ update(dt)
    \/ \E dt \in EconTickSteps : EconBounds /\ update_main(dt)
    \/ \E dt \in EconTickSteps : game_state # "Playing" /\ update(dt)
    \/ \E button \in Buttons, p \in EconClickPoints : mouse_button_down_event(button, p[1], p[2])

SpecEcon == InitEcon /\ [][NextEcon]_vars

-----------------------------------------------------------------------------
(* One call of a method of Miner, on any Miner *)

\* the gold of the Miner called: none, and the prices of the upgrades, each with
\* the amount one below it, and more than any price
GoldInputs ==
    {0, 99, 100, 199, 200, 299, 300, 399, 400, 599, 600, 799, 800, 999, 1000, 1599, 1600, 1601}

\* the time since the Miner last mined: none, and the intervals of mine_rate, each
\* with the time one unit below it, and as far back as is remembered
ElapsedInputs == {0, 1, 2, 4, 5, 9, 10, 14, 15, 19, 20, MineHorizon}

\* the Miners a method is called on
MinerInputs ==
    { [Miner_new("Player") EXCEPT !.gold = g, !.donated_gold = d,
                                  !.pickaxe_level = pl, !.mine_level = ml,
                                  !.last_mine_time = Now - e,
                                  !.health = h, !.alive = (h > 0)] :
        g \in GoldInputs, d \in {0, 50}, pl \in 0..4, ml \in 0..4,
        e \in ElapsedInputs, h \in {0, STARTING_HEALTH} }

\* the amounts contribute_gold is called with: nothing, the amounts of the buttons,
\* all the gold, and one more than it
AmountInputs(m) == {0, m.gold, m.gold + 1} \cup {contribution_amounts[i] : i \in 1..5}

\* the time that passes before update is called
MinerTickSteps == {0, 1}

InitMiner ==
    /\ player \in MinerInputs
    /\ bots = MainState_new.bots
    /\ current_round = MainState_new.current_round
    /\ round_start_time = MainState_new.round_start_time
    /\ game_state = MainState_new.game_state
    /\ round_results = MainState_new.round_results
    /\ scored = None
    /\ command = "input"

\* a method was called on the player: what it was given, what it left, what it returned
Called(method, before, amount, after, returned) ==
    /\ command = "input"
    /\ command' = method
    /\ scored' = Some([before |-> before, amount |-> amount, returned |-> returned])
    /\ player' = after
    /\ UNCHANGED <<bots, current_round, round_start_time, game_state, round_results>>

Miner_update_call(dt) ==
    LET m == Elapse(self, dt).player
    IN  Called("update", m, 0, Miner_update(m), TRUE)

upgrade_pickaxe_call ==
    Called("upgrade_pickaxe", player, 0, upgrade_pickaxe(player)[1], upgrade_pickaxe(player)[2])

upgrade_mine_call ==
    Called("upgrade_mine", player, 0, upgrade_mine(player)[1], upgrade_mine(player)[2])

contribute_gold_call(amount) ==
    Called("contribute_gold", player, amount, contribute_gold(player, amount), TRUE)

NextMiner ==
    \/ \E dt \in MinerTickSteps : Miner_update_call(dt)
    \/ upgrade_pickaxe_call
    \/ upgrade_mine_call
    \/ \E amount \in AmountInputs(player) : contribute_gold_call(amount)

SpecMiner == InitMiner /\ [][NextMiner]_vars

-----------------------------------------------------------------------------
(* Properties *)

\* the Miner of an index of the results: 0 is the player, i the i-th bot
MinerOf(i) == IF i = 0 THEN player ELSE bots[i]
MinerIdx == 0..BOT_COUNT

\* a step that is a frame, of either update
Tick == \E dt \in TickSteps : update(dt) \/ update_main(dt)

\* the indices the last end_round ranked, and the damage it assigned to one of them:
\* its 0-based position in the stored list
Results == Unwrap(round_results)
Scored == Unwrap(scored)
Ranked == {Results[k][1] : k \in 1..Len(Results)}
Damage(i) == (CHOOSE k \in 1..Len(Results) : Results[k][1] = i) - 1
Donated(i) == Scored.donated[i]

\* C1: a frame taken while the phase is RoundEnd or GameOver changes no Miner's
\* gold, health or donated gold
C1_FrozenOutsidePlaying ==
    [][ (game_state # "Playing" /\ Tick) =>
          \A i \in MinerIdx :
              /\ MinerOf(i)'.gold = MinerOf(i).gold
              /\ MinerOf(i)'.health = MinerOf(i).health
              /\ MinerOf(i)'.donated_gold = MinerOf(i).donated_gold ]_vars

\* C2: every Miner is alive exactly when its health is positive, and no health
\* is negative
C2_AliveIffHealth ==
    \A i \in MinerIdx :
        /\ MinerOf(i).alive = (MinerOf(i).health > 0)
        /\ MinerOf(i).health >= 0

C2_Witness == \E i \in MinerIdx : ~MinerOf(i).alive /\ MinerOf(i).health = 0

\* C3: no Miner's gold is negative, and no Miner's donated gold
C3_GoldNeverNegative ==
    \A i \in MinerIdx : MinerOf(i).gold >= 0 /\ MinerOf(i).donated_gold >= 0

\* upgrades were bought, everything left was donated, and the round was scored
C3_Witness ==
    /\ scored # None /\ current_round = MAX_ROUNDS
    /\ player.pickaxe_level = 4 /\ Scored.donated[0] > 0 /\ player.gold = gold_per_mine(player)
    /\ bots[1].mine_level > 0 /\ Scored.donated[1] > 0

\* C4: both levels of every Miner are in 0..4
C4_LevelsInRange ==
    \A i \in MinerIdx :
        /\ MinerOf(i).pickaxe_level \in 0..4
        /\ MinerOf(i).mine_level \in 0..4

C4_Witness ==
    /\ player.mine_level = 4 /\ player.gold >= 1000
    /\ bots[1].pickaxe_level = 4

\* C5: the list end_round stores holds the player and the bots that were alive
\* when it started, each once; a bot that was dead then is not in it and keeps
\* its health
C5_RanksAliveOnly ==
    scored # None =>
        /\ Ranked = {0} \cup {i \in BotIdx : Scored.alive[i]}
        /\ Len(Results) = Cardinality(Ranked)
        /\ \A i \in BotIdx :
               ~Scored.alive[i] => i \notin Ranked /\ bots[i].health = Scored.health[i]

C5_Witness ==
    /\ scored # None
    /\ \E i, j \in BotIdx : ~Scored.alive[i] /\ Scored.alive[j]

\* C6: the stored list holds each participant's donation, in descending order,
\* and the participant at 0-based position k has lost exactly k health, down to 0
C6_DamageIsPosition ==
    scored # None =>
        \A k \in 1..Len(Results) :
            LET i == Results[k][1]
            IN  /\ Results[k][2] = Donated(i)
                /\ k < Len(Results) => Results[k][2] >= Results[k + 1][2]
                /\ MinerOf(i).health = Max(0, Scored.health[i] - (k - 1))

C6_Witness ==
    /\ scored # None
    /\ Len(Results) = BOT_COUNT + 1
    /\ Results[1][2] > Results[Len(Results)][2]
    /\ Results[1][1] # 0
    /\ \E i \in BotIdx : Scored.health[i] > 0 /\ Scored.health[i] < Damage(i)

\* C7: a participant that donated strictly more than another is assigned strictly
\* less damage, and one that donated strictly more than every other is assigned 0
C7_MoreDonatedLessDamage ==
    scored # None =>
        /\ \A a, b \in Ranked : Donated(a) > Donated(b) => Damage(a) < Damage(b)
        /\ \A a \in Ranked :
               (\A b \in Ranked \ {a} : Donated(a) > Donated(b)) => Damage(a) = 0

C7_Witness ==
    /\ scored # None
    /\ \E a \in Ranked \ {0} :
           /\ \A b \in Ranked \ {a} : Donated(a) > Donated(b)
           /\ Cardinality(Ranked) >= 3

\* C8 as claimed: every participant that donated 0 is assigned the greatest damage
\* of the round
C8_ZeroDonorTakesMax ==
    scored # None =>
        \A a \in Ranked : Donated(a) = 0 => Damage(a) = Len(Results) - 1

\* C8 as amended: a participant that donated 0 is assigned more damage than every
\* participant that donated more than 0, and when some participant donated 0 the
\* greatest damage of the round goes to one that donated 0
C8_ZeroDonorsTakeMost ==
    scored # None =>
        /\ \A a, b \in Ranked :
               Donated(a) = 0 /\ Donated(b) > 0 => Damage(a) > Damage(b)
        /\ (\E a \in Ranked : Donated(a) = 0) =>
               Results[Len(Results)][2] = 0

C8_Witness ==
    /\ scored # None
    /\ \E a, b, c \in Ranked :
           a # b /\ Donated(a) = 0 /\ Donated(b) = 0 /\ Donated(c) > 0

\* C9: after end_round the phase is GameOver when the player is dead, else
\* GameOver when the round is the 15th or later, else RoundEnd; a player of
\* health 1 ranked at position 1 or later is in GameOver
C9_PhaseAfterScoring ==
    scored # None =>
        /\ game_state = IF ~player.alive THEN "GameOver"
                        ELSE IF current_round >= MAX_ROUNDS THEN "GameOver"
                        ELSE "RoundEnd"
        /\ Scored.health[0] = 1 /\ Damage(0) >= 1 => game_state = "GameOver"

C9_Witness ==
    /\ scored # None
    /\ Scored.health[0] = 1 /\ Damage(0) >= 1
    /\ current_round < MAX_ROUNDS
    /\ game_state = "GameOver"

\* C10: a frame taken in RoundEnd or GameOver leaves the phase as it is; a step
\* that leaves RoundEnd is start_next_round and one that leaves GameOver is
\* restart_game
C10_OnlyCommandsLeave ==
    [][ /\ (game_state # "Playing" /\ Tick) => game_state' = game_state
        /\ (game_state = "RoundEnd" /\ game_state' # "RoundEnd")
               => Becomes(start_next_round(self))
        /\ (game_state = "GameOver" /\ game_state' # "GameOver")
               => Becomes(restart_game(self)) ]_vars

C10_Witness ==
    /\ game_state = "Playing"
    /\ current_round = 2
    /\ player.last_mine_time # Now
    /\ round_start_time = Now

\* the point of ClickPoints inside the Continue button, which is drawn under the results
ContinuePoint == IF Len(Results) <= 2 THEN <<350, 275>> ELSE <<350, 335>>

\* C11: a left click on Continue in RoundEnd adds exactly 1 to current_round,
\* restarts the round clock, clears the round results and sets the phase to
\* Playing, and touches no Miner; no step taken in Playing or in GameOver
\* advances the round
C11_AdvanceOnlyInRoundEnd ==
    [][ /\ ( /\ game_state = "RoundEnd"
             /\ mouse_button_down_event("Left", ContinuePoint[1], ContinuePoint[2]) )
            => /\ current_round' = current_round + 1
               /\ round_start_time' = Now
               /\ round_results' = None
               /\ game_state' = "Playing"
               /\ player' = player /\ bots' = bots
        /\ game_state # "RoundEnd"
            => /\ current_round' # current_round + 1
               /\ command' = "start_next_round" => command = "start_next_round" ]_vars

C11_Witness ==
    /\ command = "start_next_round"
    /\ game_state = "Playing"
    /\ current_round = 3
    /\ round_start_time = Now
    /\ round_results = None

\* the point of ClickPoints inside the Restart button
RestartPoint == <<350, 335>>

\* C12: a left click on Restart in GameOver leaves current_round 1, the phase
\* Playing, no round results, and the player and each of the 3 bots with health
\* 10, alive, gold 0, donated gold 0 and both levels 0
C12_RestartResets ==
    [][ ( /\ game_state = "GameOver"
          /\ mouse_button_down_event("Left", RestartPoint[1], RestartPoint[2]) )
        => /\ current_round' = 1
           /\ game_state' = "Playing"
           /\ round_results' = None
           /\ Len(bots') = 3
           /\ \A i \in MinerIdx :
                  /\ MinerOf(i)'.health = 10
                  /\ MinerOf(i)'.alive
                  /\ MinerOf(i)'.gold = 0
                  /\ MinerOf(i)'.donated_gold = 0
                  /\ MinerOf(i)'.pickaxe_level = 0
                  /\ MinerOf(i)'.mine_level = 0 ]_vars

\* a game that was restarted and has not been played since
C12_Witness ==
    /\ command = "restart_game"
    /\ current_round = 1
    /\ player = Miner_new("Player")
    /\ \A i \in BotIdx : bots[i] = Miner_new("Bot")

\* C13 as claimed: in every phase a left click on Restart can be made that
\* resets the match
C13_RestartInEveryPhase ==
    ENABLED ( /\ mouse_button_down_event("Left", RestartPoint[1], RestartPoint[2])
              /\ player' = MainState_new.player
              /\ bots' = MainState_new.bots
              /\ current_round' = MainState_new.current_round
              /\ round_start_time' = MainState_new.round_start_time
              /\ game_state' = MainState_new.game_state
              /\ round_results' = MainState_new.round_results )

\* C13 as amended: a left click on Restart in GameOver resets the match to the
\* state MainState::new builds; no step taken in Playing or in RoundEnd is a
\* restart, and a click there at the place of the Restart button does what that
\* phase's handler does
C13_RestartOnlyInGameOver ==
    [][ /\ ( /\ game_state = "GameOver"
             /\ mouse_button_down_event("Left", RestartPoint[1], RestartPoint[2]) )
            => Becomes(restart_game(self))
        /\ game_state # "GameOver"
            => /\ command' = "restart_game" => command = "restart_game"
               /\ mouse_button_down_event("Left", RestartPoint[1], RestartPoint[2])
                      => Becomes(IF game_state = "Playing"
                                 THEN handle_game_ui_click(self, RestartPoint[1], RestartPoint[2])
                                 ELSE handle_round_end_ui_click(self, RestartPoint[1],
                                                                RestartPoint[2])) ]_vars

\* a game restarted from GameOver
C13_Witness ==
    /\ command = "restart_game"
    /\ game_state = "Playing"
    /\ scored = None
    /\ round_start_time = Now

\* C14 as claimed: the round results are present only in RoundEnd
C14_ResultsOnlyInRoundEnd ==
    round_results # None => game_state = "RoundEnd"

\* C14 as amended: the round results are present only in RoundEnd and in GameOver,
\* where end_round has stored them; in Playing they are absent
C14_ResultsOnlyAfterScoring ==
    /\ round_results # None => game_state \in {"RoundEnd", "GameOver"}
    /\ game_state = "Playing" => round_results = None

\* a second round is played, after results were stored and cleared
C14_Witness ==
    /\ game_state = "Playing"
    /\ command = "start_next_round"
    /\ round_results = None
    /\ \E i \in MinerIdx : MinerOf(i).health < STARTING_HEALTH

\* the Miner a method was called on, and the amount it was called with
Before == Scored.before

\* C15: one update of an alive Miner leaves it as it is when less than mine_rate
\* has passed since last_mine_time, and else adds gold_per_mine to its gold, once,
\* and sets last_mine_time to now, however many intervals have passed
C15_OneYieldPerUpdate ==
    (command = "update" /\ Before.alive) =>
        LET elapsed == duration_since(Now, Before.last_mine_time)
        IN  IF elapsed < mine_rate(Before)
            THEN player = Before
            ELSE player = [Before EXCEPT !.gold = @ + gold_per_mine(Before),
                                         !.last_mine_time = Now]

\* two intervals or more had passed and one yield was added
C15_Witness ==
    /\ command = "update" /\ Before.alive
    /\ duration_since(Now, Before.last_mine_time) >= 2 * mine_rate(Before)
    /\ Before.mine_level = 4
    /\ player.gold = Before.gold + 15

\* the prices of the levels 0, 1, 2, 3 as claimed
PickaxeCosts == <<200, 400, 800, 1600>>
MineCosts == <<100, 300, 600, 1000>>

\* C16: an upgrade called below level 4 with gold of at least the price of the
\* level (200, 400, 800, 1600 for the pickaxe, 100, 300, 600, 1000 for the mine)
\* returns true, and an upgrade that returns true has taken exactly that price
\* and raised that level by 1, leaving everything else as it was
C16_UpgradeTakesPrice ==
    /\ command = "upgrade_pickaxe" =>
           LET level == Before.pickaxe_level
           IN  /\ (level < 4 /\ Before.gold >= PickaxeCosts[level + 1]) => Scored.returned
               /\ Scored.returned =>
                      /\ level < 4
                      /\ player = [Before EXCEPT !.gold = @ - PickaxeCosts[level + 1],
                                                 !.pickaxe_level = @ + 1]
    /\ command = "upgrade_mine" =>
           LET level == Before.mine_level
           IN  /\ (level < 4 /\ Before.gold >= MineCosts[level + 1]) => Scored.returned
               /\ Scored.returned =>
                      /\ level < 4
                      /\ player = [Before EXCEPT !.gold = @ - MineCosts[level + 1],
                                                 !.mine_level = @ + 1]

\* the last level of the mine was bought with exactly its price
C16_Witness ==
    /\ command = "upgrade_mine" /\ Scored.returned
    /\ Before.mine_level = 3 /\ Before.gold = 1000
    /\ player.mine_level = 4 /\ player.gold = 0

\* C17: an upgrade called at level 4, or with less gold than the price of the
\* level, returns false and leaves the Miner as it was
C17_FailedUpgradeChangesNothing ==
    /\ command = "upgrade_pickaxe" =>
           LET level == Before.pickaxe_level
           IN  (level = 4 \/ Before.gold < PickaxeCosts[level + 1])
                   => ~Scored.returned /\ player = Before
    /\ command = "upgrade_mine" =>
           LET level == Before.mine_level
           IN  (level = 4 \/ Before.gold < MineCosts[level + 1])
                   => ~Scored.returned /\ player = Before

\* a pickaxe refused for 199 gold
C17_Witness ==
    /\ command = "upgrade_pickaxe" /\ ~Scored.returned
    /\ Before.pickaxe_level = 0 /\ Before.gold = 199
    /\ player.pickaxe_level = 0 /\ player.gold = 199

\* C18: contribute_gold called with more than the Miner's gold leaves the Miner as
\* it was; called with an amount from 0 to all its gold it moves exactly the
\* amount from gold to donated gold, so that their sum is as before
C18_ContributeMovesAmount ==
    command = "contribute_gold" =>
        LET amount == Scored.amount
        IN  /\ amount > Before.gold => player = Before
            /\ (0 <= amount /\ amount <= Before.gold) =>
                   /\ player = [Before EXCEPT !.gold = @ - amount,
                                              !.donated_gold = @ + amount]
                   /\ player.gold + player.donated_gold = Before.gold + Before.donated_gold

\* all the gold was donated, on top of an earlier donation
C18_Witness ==
    /\ command = "contribute_gold"
    /\ Scored.amount = Before.gold /\ Before.gold > 0 /\ Before.donated_gold > 0
    /\ player.gold = 0
    /\ player.donated_gold = Before.donated_gold + Before.gold

\* C19: once end_round has run, and until the next round starts, the donated gold
\* of the player and of every bot, alive or dead, is 0
C19_DonationsReset ==
    command = "end_round" =>
        \A i \in MinerIdx : MinerOf(i).donated_gold = 0

\* the player and a bot had donated, one bot was dead before and one died
C19_Witness ==
    /\ command = "end_round"
    /\ Donated(0) > 0
    /\ \E i, j, k \in BotIdx :
           /\ Donated(i) > 0
           /\ ~Scored.alive[j]
           /\ Scored.alive[k] /\ ~bots[k].alive
    /\ \A i \in MinerIdx : MinerOf(i).donated_gold = 0

\* C20: current_round is from 1 to 15 before and after every step; a step that changes it is
\* start_next_round taken in RoundEnd, which adds 1, or restart_game taken in
\* GameOver, which sets it to 1, and is no frame, so that no frame changes it,
\* the frame that runs end_round included
C20_RoundCounter ==
    [][ /\ current_round >= 1 /\ current_round <= 15
        /\ current_round' >= 1 /\ current_round' <= 15
        /\ current_round' # current_round =>
               /\ ~Tick
               /\ \/ /\ game_state = "RoundEnd"
                     /\ Becomes(start_next_round(self))
                     /\ current_round' = current_round + 1
                  \/ /\ game_state = "GameOver"
                     /\ Becomes(restart_game(self))
                     /\ current_round' = 1 ]_vars

\* the 15th round was scored with the player alive
C20_Witness ==
    /\ current_round = 15
    /\ command = "end_round"
    /\ game_state = "GameOver"
    /\ player.alive

\* C21: a step that finds a Miner dead and leaves it alive is restart_game
C21_DeadStaysDead ==
    [][ \A i \in MinerIdx :
            (~MinerOf(i).alive /\ MinerOf(i)'.alive) => Becomes(restart_game(self)) ]_vars

\* a bot that died in an earlier round is dead in a later round, while others play
C21_Witness ==
    /\ game_state = "Playing"
    /\ command = "start_next_round"
    /\ current_round >= 6
    /\ \E i, j \in BotIdx : ~bots[i].alive /\ bots[j].alive

\* C22: a dead bot has donated gold 0, and a step that leaves it dead leaves its
\* gold, its two levels and its health as they were and its donated gold 0
C22_DeadBotFrozen ==
    [][ \A i \in BotIdx :
            ~bots[i].alive =>
                /\ bots[i].donated_gold = 0
                /\ ~bots'[i].alive =>
                       /\ bots'[i].gold = bots[i].gold
                       /\ bots'[i].pickaxe_level = bots[i].pickaxe_level
                       /\ bots'[i].mine_level = bots[i].mine_level
                       /\ bots'[i].health = bots[i].health
                       /\ bots'[i].donated_gold = 0 ]_vars

\* rounds have passed in which an alive bot mined and upgraded and a dead one did not
C22_Witness ==
    /\ game_state = "Playing"
    /\ current_round = 15
    /\ ~bots[2].alive /\ bots[2].gold = EconStart.bots[2].gold /\ bots[2].pickaxe_level = 0
    /\ bots[1].alive /\ bots[1].pickaxe_level > 0 /\ bots[1].mine_level > 0

\* C23: in the frame that ends a round every alive bot first mines, then decides,
\* and then is ranked: what end_round counts for the bot is what it had donated
\* before the frame and what it donates in the frame, which it can pay with the
\* gold mined in the frame (no bot can pay for an upgrade within the bound on gold)
C23_MineDecideScore ==
    [][ (game_state = "Playing" /\ command' = "end_round") =>
            \A i \in BotIdx :
                bots[i].alive =>
                    LET counted == Unwrap(scored').donated[i]
                        given == counted - bots[i].donated_gold
                    IN  /\ given >= 0
                        /\ bots'[i].gold = bots[i].gold + gold_per_mine(bots[i]) - given
                        /\ \E k \in 1..Len(Unwrap(round_results')) :
                               Unwrap(round_results')[k] = <<i, counted>> ]_vars

\* in the only frame of the first round a bot has donated gold it mined in that frame
C23_Witness ==
    /\ command = "end_round"
    /\ current_round = 1
    /\ \E i \in BotIdx : Donated(i) = 1 /\ bots[i].gold = 1 /\ Damage(i) = 0

\* a step that is a frame of the late game, of either update
EconTick == \E dt \in EconTickSteps : update(dt) \/ update_main(dt)

\* the round clock as the frame that comes dt after the last event reads it
RoundClock(dt) == duration_since(Now, Elapse(self, dt).round_start_time)

\* the health of the four Miners
Healths == [i \in MinerIdx |-> MinerOf(i).health]

\* C24: a step in which end_round runs is a frame taken in Playing that reads a
\* round clock of ROUND_DURATION (60 s) or more; a frame taken in Playing that reads
\* less runs no end_round; and once end_round has run, a step either is
\* start_next_round or restart_game or leaves what was scored, the results and
\* the health of every Miner as they were
C24_ScoredOncePerRound ==
    [][ /\ (scored' # None /\ scored' # scored) =>
               /\ game_state = "Playing"
               /\ scored = None
               /\ EconTick
               /\ \A dt \in EconTickSteps : RoundClock(dt) >= ROUND_DURATION
        /\ ( /\ game_state = "Playing"
             /\ \E dt \in EconTickSteps : RoundClock(dt) < ROUND_DURATION
             /\ EconTick )
               => scored' = None /\ game_state' = "Playing" /\ Healths' = Healths
        /\ scored # None =>
               \/ command' \in {"start_next_round", "restart_game"} /\ scored' = None
               \/ /\ scored' = scored
                  /\ round_results' = round_results
                  /\ Healths' = Healths ]_vars

\* a round was scored by its second frame, and frames have come since
C24_Witness ==
    /\ command = "end_round" /\ game_state = "RoundEnd"
    /\ current_round = 14
    /\ round_start_time = Now - ROUND_DURATION
    /\ player.last_mine_time = Now - MineHorizon
    /\ player.health = EconStart.player.health - Damage(0)

\* C25: of two participants that donated the same, the one of the lower index (the
\* player before every bot, a bot before the bots after it) is assigned less
\* damage; when all donated the same each is assigned as much damage as there
\* are participants of a lower index: the player 0, the alive bots 1, 2, 3 in order
C25_TiesKeepOrder ==
    scored # None =>
        /\ \A a, b \in Ranked :
               (Donated(a) = Donated(b) /\ a < b) => Damage(a) < Damage(b)
        /\ (\A a, b \in Ranked : Donated(a) = Donated(b)) =>
               \A a \in Ranked : Damage(a) = Cardinality({b \in Ranked : b < a})

\* two bots donated the same, more than the player and the other bot
C25_WitnessTwoBots ==
    /\ scored # None
    /\ Len(Results) = BOT_COUNT + 1
    /\ Donated(2) = Donated(3) /\ Donated(2) > Donated(0) /\ Donated(1) < Donated(2)
    /\ Damage(2) = 0 /\ Damage(3) = 1

\* all four donated the same, more than nothing
C25_Witness ==
    /\ scored # None
    /\ Len(Results) = BOT_COUNT + 1
    /\ \A a \in Ranked : Donated(a) = 2
    /\ \A a \in Ranked : Damage(a) = a

\* C26: bots always has exactly 3 elements; every index in the stored results is 0,
\* the player, or from 1 to 3, the element of bots it stands for, and no index is
\* in the results twice
C26_IndicesInRange ==
    /\ Len(bots) = 3
    /\ DOMAIN bots = 1..3
    /\ round_results # None =>
           /\ \A k \in 1..Len(Results) : Results[k][1] \in 0..3
           /\ \A k, l \in 1..Len(Results) : Results[k][1] = Results[l][1] => k = l

\* a round was scored in which the only bot left led the player
C26_Witness ==
    /\ command = "end_round"
    /\ Len(Results) = 2
    /\ Results[1][1] \in BotIdx /\ Results[2][1] = 0
    /\ Len(bots) = 3

\* C27: in Playing the player is alive; in RoundEnd the player is alive and
\* current_round is below 15; in GameOver the player is dead or current_round is 15
C27_PhaseAgreesWithPlayer ==
    /\ game_state = "Playing" => player.alive
    /\ game_state = "RoundEnd" => player.alive /\ current_round < 15
    /\ game_state = "GameOver" => ~player.alive \/ current_round = 15

\* the player is one damage from death on the RoundEnd screen of the 14th round
C27_Witness ==
    /\ game_state = "RoundEnd"
    /\ current_round = 14
    /\ player.health = 1

\* C28: a step that starts the next round leaves the player and every bot exactly
\* as they were: gold, donated gold, both levels, health, alive and last_mine_time
C28_AdvanceKeepsMiners ==
    [][ (command' = "start_next_round" /\ current_round' # current_round) =>
            /\ player' = player
            /\ bots' = bots ]_vars

\* the last round was started with upgrades bought, health lost, a bot dead and
\* the mining clocks run on
C28_Witness ==
    /\ command = "start_next_round"
    /\ current_round = 15
    /\ round_start_time = Now
    /\ player.pickaxe_level > 0 /\ player.mine_level > 0
    /\ player.health < EconStart.player.health
    /\ player.gold > 0
    /\ player.last_mine_time # Now
    /\ bots[1].pickaxe_level > 0 /\ ~bots[2].alive

\* the rounds scored since the game was started or restarted
Scorings == IF command = "end_round" THEN current_round ELSE current_round - 1

\* C29: in one end_round no Miner loses more health than there were bots alive,
\* so no more than 3; after n rounds scored every Miner has health of at least
\* 10 - 3n, and before the 4th no Miner is dead
C29_DamageBounded ==
    /\ scored # None =>
           \A i \in MinerIdx :
               LET lost == Scored.health[i] - MinerOf(i).health
               IN  /\ lost >= 0
                   /\ lost <= Cardinality({b \in BotIdx : Scored.alive[b]})
                   /\ lost <= 3
    /\ \A i \in MinerIdx : MinerOf(i).health >= 10 - 3 * Scorings
    /\ Scorings < 4 => \A i \in MinerIdx : MinerOf(i).alive

\* a bot that was last in each of four rounds died in the 4th
C29_Witness ==
    /\ command = "end_round"
    /\ current_round = 4
    /\ \E i \in BotIdx : Scored.health[i] = 1 /\ Damage(i) = 3 /\ ~bots[i].alive

=============================================================================
